---- MODULE Spec2Model ----
(***************************************************************************)
(* Rule handler of packages/rule-handler/src/rule.ts: the filter matcher   *)
(* (parseSearchFilter, isValidData), the rule source (getEnabledRules) and *)
(* the action dispatcher (triggerActions).                                 *)
(*                                                                         *)
(* Strings of the program are sequences of one-character strings, so that  *)
(* the sanitising replace and the tokenizer work on characters.            *)
(***************************************************************************)
EXTENDS Integers, Sequences, FiniteSets, TLC

VARIABLES
    data,            \* the incoming event (PubSubData)
    rules,           \* the rule list handed to triggerActions
    rulesUndefined,  \* TRUE when `rules` is undefined instead of a list
    pc,              \* position of the event's processing
    authCalls,       \* number of getAuthToken calls made for this event
    rulesAuth,       \* `auth` of getEnabledRules (0: none)
    authToken,       \* `authToken` of triggerActions (0: none)
    ri, ai,          \* position of the two nested maps of triggerActions
    promises,        \* actionPromises.flat().filter(...): the launched calls
    log,             \* console.log / console.debug lines
    firstRejection,  \* the rejection Promise.all reacts to (0: none)
    result,          \* what the caller of the pipeline receives
    filter,          \* matcher check: the filter text
    matched,         \* matcher check: what isValidData returned
    evaluated        \* matcher check: number of predicates evaluated

vars == <<data, rules, rulesUndefined, pc, authCalls, rulesAuth, authToken, ri, ai, promises,
          log, firstRejection, result, filter, matched, evaluated>>

dispatchVars == <<rules, rulesUndefined, pc, authCalls, rulesAuth, authToken, ri, ai, promises,
                  log, firstRejection, result>>

matchVars == <<filter, matched, evaluated>>

----------------------------------------------------------------------------
(* Bounds *)

MaxRules == 2
MaxTerms == 2

----------------------------------------------------------------------------
(* Values *)

\* JavaScript's undefined, as a value no string of characters equals
undefined == <<"undefined">>

AddLabel == "ADD_LABEL"
Archive == "ARCHIVE"
MarkAsRead == "MARK_AS_READ"
SendNotification == "SEND_NOTIFICATION"
\* a type string outside the enum, as the rule store may deliver one
UnknownType == "EXPORT"

NotificationMessage == "New page added to your feed"

keywords == {<<"s","u","b","s","c","r","i","p","t","i","o","n">>,
             <<"c","o","n","t","e","n","t">>,
             <<"i","s">>,
             <<"t","y","p","e">>}

WordChars == {"a","b","c","d","e","f","g","h","i","j","k","l","m","n","o","p",
              "q","r","s","t","u","v","w","x","y","z","0","1","_"}

IsWordChar(c) == c \in WordChars
IsSpace(c) == c = " "
Quote == "\""

----------------------------------------------------------------------------
(* search-query-parser's parse(string, {keywords, tokenize: true}), as far  *)
(* as parseSearchFilter reads it: the keyword offsets, in order.            *)

Min(S) == CHOOSE x \in S : \A y \in S : x <= y
Max(S) == CHOOSE x \in S : \A y \in S : y <= x

\* index of the first `c` of s at or after p, 0 when there is none
IndexFrom(s, c, p) ==
    LET at == {i \in p..Len(s) : s[i] = c}
    IN IF at = {} THEN 0 ELSE Min(at)

\* last index of the run of non-space characters that starts at p
RECURSIVE RunEnd(_, _)
RunEnd(s, p) ==
    IF p + 1 <= Len(s) /\ ~IsSpace(s[p + 1]) THEN RunEnd(s, p + 1) ELSE p

\* last index of the term the tokenizer's regex matches at the non-space p:
\*   \S+:"..."  |  -?"..."  |  \S+       (first alternative that matches)
TermEnd(s, p) ==
    LET keyed == {k \in (p + 1)..RunEnd(s, p) :
                     /\ s[k] = ":"
                     /\ k + 1 <= Len(s)
                     /\ s[k + 1] = Quote
                     /\ IndexFrom(s, Quote, k + 2) # 0}
        q     == IF s[p] = "-" /\ p + 1 <= Len(s) THEN p + 1 ELSE p
    IN IF keyed # {} THEN IndexFrom(s, Quote, Max(keyed) + 2)
       ELSE IF s[q] = Quote /\ IndexFrom(s, Quote, q + 1) # 0
            THEN IndexFrom(s, Quote, q + 1)
       ELSE RunEnd(s, p)

\* the terms of s from position p on
RECURSIVE Terms(_, _)
Terms(s, p) ==
    IF p > Len(s) THEN <<>>
    ELSE IF IsSpace(s[p]) THEN Terms(s, p + 1)
    ELSE <<SubSeq(s, p, TermEnd(s, p))>> \o Terms(s, TermEnd(s, p) + 1)

\* val.replace(/^\"|\"$/g, ''): one leading and one trailing quote go
StripQuotes(v) ==
    LET a == IF v # <<>> /\ v[1] = Quote THEN Tail(v) ELSE v
    IN IF a # <<>> /\ a[Len(a)] = Quote THEN SubSeq(a, 1, Len(a) - 1) ELSE a

\* the keyword offset of one term, or <<>> when the term is plain text;
\* a leading '-' (exclusion) is dropped from a registered keyword
TermOffset(term) ==
    LET sep == IndexFrom(term, ":", 1)
        key == SubSeq(term, 1, sep - 1)
        val == StripQuotes(SubSeq(term, sep + 1, Len(term)))
    IN IF sep = 0 THEN <<>>
       ELSE IF key \in keywords THEN <<[keyword |-> key, value |-> val]>>
       ELSE IF key # <<>> /\ key[1] = "-" /\ Tail(key) \in keywords
            THEN <<[keyword |-> Tail(key), value |-> val]>>
       ELSE <<>>

RECURSIVE Offsets(_)
Offsets(terms) ==
    IF terms = <<>> THEN <<>>
    ELSE TermOffset(Head(terms)) \o Offsets(Tail(terms))

\* parsed.offsets.filter((offset) => 'keyword' in offset); the terms are
\* computed once, before the offsets are taken from them
parse(s) == CHOOSE r \in {Offsets(terms) : terms \in {Terms(s, 1)}} : TRUE

----------------------------------------------------------------------------
(* search_filter/*: the predicates                                          *)

RECURSIVE Contains(_, _)
Contains(s, sub) ==
    IF Len(sub) > Len(s) THEN FALSE
    ELSE IF SubSeq(s, 1, Len(sub)) = sub THEN TRUE
    ELSE Contains(Tail(s), sub)

SubscriptionFilter(value) == [kind |-> "SubscriptionFilter", query |-> value]
ContentFilter(value) == [kind |-> "ContentFilter", query |-> value]
ReadFilter(value) == [kind |-> "ReadFilter", query |-> value]

\* searchFilter.isValid(data): an absent attribute never matches
isValid(searchFilter, d) ==
    CASE searchFilter.kind = "SubscriptionFilter" ->
            d.subscription # undefined /\ d.subscription = searchFilter.query
      [] searchFilter.kind = "ContentFilter" ->
            d.content # undefined /\ Contains(d.content, searchFilter.query)
      [] searchFilter.kind = "ReadFilter" ->
            d.readState # undefined /\ d.readState = searchFilter.query

----------------------------------------------------------------------------
(* rule.ts: parseSearchFilter, isValidData                                  *)

\* filter.replace(/\W\s":/g, '')
RECURSIVE replaceStray(_)
replaceStray(s) ==
    IF Len(s) < 4 THEN s
    ELSE IF /\ ~IsWordChar(s[1])
            /\ IsSpace(s[2])
            /\ s[3] = Quote
            /\ s[4] = ":"
         THEN replaceStray(SubSeq(s, 5, Len(s)))
    ELSE <<s[1]>> \o replaceStray(Tail(s))

\* mutant: `type` gets a predicate of its own kind
filterOf_TypeDistinct(keyword) ==
    IF keyword.value = <<>> THEN <<>>
    ELSE CASE keyword.keyword = <<"s","u","b","s","c","r","i","p","t","i","o","n">> ->
                <<SubscriptionFilter(keyword.value)>>
           [] keyword.keyword = <<"c","o","n","t","e","n","t">> ->
                <<ContentFilter(keyword.value)>>
           [] keyword.keyword = <<"i","s">> -> <<ReadFilter(keyword.value)>>
           [] keyword.keyword = <<"t","y","p","e">> -> <<ContentFilter(keyword.value)>>
           [] OTHER -> <<>>

\* mutant: the empty value is not skipped
filterOf_KeepEmpty(keyword) ==
    CASE keyword.keyword = <<"s","u","b","s","c","r","i","p","t","i","o","n">> ->
            <<SubscriptionFilter(keyword.value)>>
      [] keyword.keyword = <<"c","o","n","t","e","n","t">> ->
            <<ContentFilter(keyword.value)>>
      [] keyword.keyword = <<"i","s">> -> <<ReadFilter(keyword.value)>>
      [] keyword.keyword = <<"t","y","p","e">> -> <<ReadFilter(keyword.value)>>
      [] OTHER -> <<>>

\* the switch of lines 53-71 for one keyword offset
filterOf(keyword) ==
    IF keyword.value = <<>> THEN <<>>
    ELSE CASE keyword.keyword = <<"s","u","b","s","c","r","i","p","t","i","o","n">> ->
                <<SubscriptionFilter(keyword.value)>>
           [] keyword.keyword = <<"c","o","n","t","e","n","t">> ->
                <<ContentFilter(keyword.value)>>
           [] keyword.keyword = <<"i","s">> -> <<ReadFilter(keyword.value)>>
           [] keyword.keyword = <<"t","y","p","e">> -> <<ReadFilter(keyword.value)>>
           [] OTHER -> <<>>

RECURSIVE filtersOf(_)
filtersOf(offsets) ==
    IF offsets = <<>> THEN <<>>
    ELSE filterOf(Head(offsets)) \o filtersOf(Tail(offsets))

parseSearchFilter(f) ==
    LET searchFilter == IF f # <<>> THEN replaceStray(f) ELSE undefined
    IN IF searchFilter = undefined \/ searchFilter = <<>> \/ searchFilter = <<"*">>
       THEN <<>>
       ELSE CHOOSE r \in {filtersOf(offsets) :
                           offsets \in {parse(sf) : sf \in {searchFilter}}} : TRUE

\* mutant: an empty predicate list counts as no match
isValidData_EmptyFails(f, d) ==
    LET searchFilters == parseSearchFilter(f)
    IN IF Len(searchFilters) = 0 THEN FALSE
       ELSE \A i \in 1..Len(searchFilters) : isValid(searchFilters[i], d)

\* mutant: one matching predicate is enough
isValidData_Some(f, d) ==
    LET searchFilters == parseSearchFilter(f)
    IN IF Len(searchFilters) = 0 THEN TRUE
       ELSE \E i \in 1..Len(searchFilters) : isValid(searchFilters[i], d)

isValidData(f, d) ==
    LET searchFilters == parseSearchFilter(f)
    IN IF Len(searchFilters) = 0 THEN TRUE
       ELSE \A i \in 1..Len(searchFilters) : isValid(searchFilters[i], d)

\* number of isValid calls isValidData makes: every() stops at the first false
predicatesEvaluated(f, d) ==
    LET searchFilters == parseSearchFilter(f)
        failing == {i \in 1..Len(searchFilters) : ~isValid(searchFilters[i], d)}
    IN IF failing = {} THEN Len(searchFilters) ELSE Min(failing)

----------------------------------------------------------------------------
(* Inputs *)

S_abc == <<"a","b","c">>
S_read == <<"r","e","a","d">>
S_unread == <<"u","n","r","e","a","d">>
S_star == <<"*">>
S_isUnread == <<"i","s",":">> \o S_unread

\* the events of the dispatcher runs
Event(id, readState) ==
    [id |-> id, readState |-> readState,
     subscription |-> undefined, content |-> undefined]

EventPool ==
    { Event(S_abc, S_unread),
      Event(S_abc, S_read),
      Event(S_abc, undefined),
      Event(undefined, S_unread),
      Event(<<>>, S_unread) }

Action(t, ps) == [type |-> t, params |-> ps]
Rule(f, as, en) == [filter |-> f, actions |-> as, enabled |-> en]

RulePool ==
    { Rule(S_star, <<Action(SendNotification, <<>>), Action(AddLabel, <<"todo">>)>>, TRUE),
      Rule(S_isUnread, <<Action(AddLabel, <<"todo">>)>>, TRUE),
      Rule(<<>>, <<Action(AddLabel, <<>>)>>, TRUE),
      Rule(S_star, <<Action(MarkAsRead, <<>>), Action(SendNotification, <<"x">>)>>, TRUE),
      Rule(S_star, <<Action(UnknownType, <<>>), Action(Archive, <<>>)>>, FALSE) }

RECURSIVE SeqsUpTo(_, _)
SeqsUpTo(S, n) ==
    IF n = 0 THEN {<<>>}
    ELSE LET shorter == SeqsUpTo(S, n - 1)
         IN shorter \cup {Append(q, x) : q \in shorter, x \in S}

\* the lists a caller may hand to triggerActions
RuleLists == SeqsUpTo(RulePool, MaxRules)

\* what rules(enabled: true) may answer
EnabledRuleLists == SeqsUpTo({r \in RulePool : r.enabled}, MaxRules)

----------------------------------------------------------------------------
(* rule.ts: triggerActions, the body of the inner map (lines 141-171)       *)

\* mutant: only a missing identifier counts as none
HasId_EmptyIsId(d) == d.id # undefined

\* !data.id is false
HasId(d) == d.id # undefined /\ d.id # <<>>

Call(fn, token, id, labels, message) ==
    [fn |-> fn, auth |-> token, id |-> id, labels |-> labels, message |-> message]

\* mutant: AddLabel without the params.length check
actionCall_NoParamsCheck(action, d, token) ==
    CASE action.type = AddLabel ->
            IF ~HasId(d) THEN <<>>
            ELSE <<Call("addLabels", token, d.id, action.params, "")>>
      [] action.type = Archive ->
            IF ~HasId(d) THEN <<>>
            ELSE <<Call("archivePage", token, d.id, <<>>, "")>>
      [] action.type = MarkAsRead ->
            IF ~HasId(d) THEN <<>>
            ELSE <<Call("markPageAsRead", token, d.id, <<>>, "")>>
      [] action.type = SendNotification ->
            <<Call("sendNotification", token, undefined, <<>>, NotificationMessage)>>
      [] OTHER -> <<>>

\* mutant: MarkAsRead without the data.id check
actionCall_NoIdCheck(action, d, token) ==
    CASE action.type = AddLabel ->
            IF ~HasId(d) \/ Len(action.params) = 0 THEN <<>>
            ELSE <<Call("addLabels", token, d.id, action.params, "")>>
      [] action.type = Archive ->
            IF ~HasId(d) THEN <<>>
            ELSE <<Call("archivePage", token, d.id, <<>>, "")>>
      [] action.type = MarkAsRead ->
            <<Call("markPageAsRead", token, d.id, <<>>, "")>>
      [] action.type = SendNotification ->
            <<Call("sendNotification", token, undefined, <<>>, NotificationMessage)>>
      [] OTHER -> <<>>

\* mutant: SendNotification guarded by data.id like its neighbours
actionCall_NotifyNeedsId(action, d, token) ==
    CASE action.type = AddLabel ->
            IF ~HasId(d) \/ Len(action.params) = 0 THEN <<>>
            ELSE <<Call("addLabels", token, d.id, action.params, "")>>
      [] action.type = Archive ->
            IF ~HasId(d) THEN <<>>
            ELSE <<Call("archivePage", token, d.id, <<>>, "")>>
      [] action.type = MarkAsRead ->
            IF ~HasId(d) THEN <<>>
            ELSE <<Call("markPageAsRead", token, d.id, <<>>, "")>>
      [] action.type = SendNotification ->
            IF ~HasId(d) THEN <<>>
            ELSE <<Call("sendNotification", token, undefined, <<>>, NotificationMessage)>>
      [] OTHER -> <<>>

\* mutant: addLabels is called without the action's params
actionCall_LabelsDropped(action, d, token) ==
    CASE action.type = AddLabel ->
            IF ~HasId(d) \/ Len(action.params) = 0 THEN <<>>
            ELSE <<Call("addLabels", token, d.id, <<>>, "")>>
      [] action.type = Archive ->
            IF ~HasId(d) THEN <<>>
            ELSE <<Call("archivePage", token, d.id, <<>>, "")>>
      [] action.type = MarkAsRead ->
            IF ~HasId(d) THEN <<>>
            ELSE <<Call("markPageAsRead", token, d.id, <<>>, "")>>
      [] action.type = SendNotification ->
            <<Call("sendNotification", token, undefined, <<>>, NotificationMessage)>>
      [] OTHER -> <<>>

\* mutant: a default branch that notifies for a type the switch does not know
actionCall_UnknownNotifies(action, d, token) ==
    CASE action.type = AddLabel ->
            IF ~HasId(d) \/ Len(action.params) = 0 THEN <<>>
            ELSE <<Call("addLabels", token, d.id, action.params, "")>>
      [] action.type = Archive ->
            IF ~HasId(d) THEN <<>>
            ELSE <<Call("archivePage", token, d.id, <<>>, "")>>
      [] action.type = MarkAsRead ->
            IF ~HasId(d) THEN <<>>
            ELSE <<Call("markPageAsRead", token, d.id, <<>>, "")>>
      [] OTHER ->
            <<Call("sendNotification", token, undefined, <<>>, NotificationMessage)>>

\* the capability call the switch makes for `action`, <<>> when it returns undefined
actionCall(action, d, token) ==
    CASE action.type = AddLabel ->
            IF ~HasId(d) \/ Len(action.params) = 0 THEN <<>>
            ELSE <<Call("addLabels", token, d.id, action.params, "")>>
      [] action.type = Archive ->
            IF ~HasId(d) THEN <<>>
            ELSE <<Call("archivePage", token, d.id, <<>>, "")>>
      [] action.type = MarkAsRead ->
            IF ~HasId(d) THEN <<>>
            ELSE <<Call("markPageAsRead", token, d.id, <<>>, "")>>
      [] action.type = SendNotification ->
            <<Call("sendNotification", token, undefined, <<>>, NotificationMessage)>>
      [] OTHER -> <<>>

\* the console.log line of the switch for `action`
actionLog(action, d) ==
    CASE action.type = AddLabel /\ (~HasId(d) \/ Len(action.params) = 0) ->
            <<"invalid data for add label action">>
      [] action.type = Archive /\ ~HasId(d) ->
            <<"invalid data for archive action">>
      [] action.type = MarkAsRead /\ ~HasId(d) ->
            <<"invalid data for mark as read action">>
      [] OTHER -> <<>>

\* the launched call as a promise of the batch
Promise(r, a, call) ==
    [rule |-> r, action |-> a, call |-> call, state |-> "pending"]

\* what the caller's await gives: `from` is the function whose promise settled,
\* `failed` the promise of the batch whose rejection is passed on (0: none)
NoResult ==
    [kind |-> "none", from |-> "", value |-> <<>>, reason |-> "", failed |-> 0]
Rejected(fn, why, i) ==
    [kind |-> "rejected", from |-> fn, value |-> <<>>, reason |-> why, failed |-> i]
Fulfilled(fn, v) ==
    [kind |-> "fulfilled", from |-> fn, value |-> v, reason |-> "", failed |-> 0]

RejectedIn(ps) == {i \in 1..Len(ps) : ps[i].state = "rejected"}

----------------------------------------------------------------------------
(* The processing of one event                                              *)

Init ==
    /\ data \in EventPool
    /\ rules = <<>>
    /\ rulesUndefined = FALSE
    /\ pc = "idle"
    /\ authCalls = 0
    /\ rulesAuth = 0
    /\ authToken = 0
    /\ ri = 1
    /\ ai = 0
    /\ promises = <<>>
    /\ log = <<>>
    /\ firstRejection = 0
    /\ result = NoResult
    /\ filter = <<>>
    /\ matched = FALSE
    /\ evaluated = -1

\* getEnabledRules, line 93: await getAuthToken(userId, jwtSecret)
GetEnabledRulesAuth ==
    /\ pc = "idle"
    /\ authCalls' = authCalls + 1
    /\ \E ok \in BOOLEAN :
          IF ok
          THEN /\ rulesAuth' = authCalls + 1
               /\ pc' = "getEnabledRules:post"
               /\ result' = result
          ELSE /\ rulesAuth' = rulesAuth
               /\ pc' = "returned"
               /\ result' = Rejected("getEnabledRules", "getAuthToken", 0)
    /\ UNCHANGED <<data, rules, rulesUndefined, authToken, ri, ai, promises, log,
                   firstRejection>>
    /\ UNCHANGED matchVars

\* getEnabledRules, lines 116-124: the request and response.data.data.rules.rules;
\* the caller then hands the value to triggerActions
GetEnabledRulesPost ==
    /\ pc = "getEnabledRules:post"
    /\ \/ \E list \in EnabledRuleLists :          \* RulesSuccess
             /\ rules' = list
             /\ rulesUndefined' = FALSE
             /\ pc' = "triggerActions:auth"
             /\ result' = result
       \/ /\ rules' = <<>>                         \* RulesError: .rules is undefined
          /\ rulesUndefined' = TRUE
          /\ pc' = "triggerActions:auth"
          /\ result' = result
       \/ /\ UNCHANGED <<rules, rulesUndefined>>   \* axios.post rejects
          /\ pc' = "returned"
          /\ result' = Rejected("getEnabledRules", "axios.post", 0)
    /\ UNCHANGED <<data, authCalls, rulesAuth, authToken, ri, ai, promises, log,
                   firstRejection>>
    /\ UNCHANGED matchVars

\* a caller invokes the exported triggerActions with a rule list of its own
TriggerActionsCall ==
    /\ pc = "idle"
    /\ \E list \in RuleLists : rules' = list
    /\ pc' = "triggerActions:auth"
    /\ UNCHANGED <<data, rulesUndefined, authCalls, rulesAuth, authToken, ri, ai,
                   promises, log, firstRejection, result>>
    /\ UNCHANGED matchVars

\* mutant: a failed getAuthToken is swallowed and the dispatch goes on
TriggerActionsAuth_Swallow ==
    /\ pc = "triggerActions:auth"
    /\ authCalls' = authCalls + 1
    /\ \E ok \in BOOLEAN :
          authToken' = IF ok THEN authCalls + 1 ELSE authToken
    /\ pc' = "triggerActions:map"
    /\ UNCHANGED <<data, rules, rulesUndefined, rulesAuth, ri, ai, promises, log,
                   firstRejection, result>>
    /\ UNCHANGED matchVars

\* triggerActions, line 134: await getAuthToken(userId, jwtSecret)
TriggerActionsAuth ==
    /\ pc = "triggerActions:auth"
    /\ authCalls' = authCalls + 1
    /\ \E ok \in BOOLEAN :
          IF ok
          THEN /\ authToken' = authCalls + 1
               /\ pc' = "triggerActions:map"
               /\ result' = result
          ELSE /\ authToken' = authToken
               /\ pc' = "returned"
               /\ result' = Rejected("triggerActions", "getAuthToken", 0)
    /\ UNCHANGED <<data, rules, rulesUndefined, rulesAuth, ri, ai, promises, log,
                   firstRejection>>
    /\ UNCHANGED matchVars

\* triggerActions, line 136 on an undefined `rules`: rules.map throws
MapUndefined ==
    /\ pc = "triggerActions:map"
    /\ rulesUndefined
    /\ pc' = "returned"
    /\ result' = Rejected("triggerActions", "TypeError", 0)
    /\ UNCHANGED <<data, rules, rulesUndefined, authCalls, rulesAuth, authToken, ri,
                   ai, promises, log, firstRejection>>
    /\ UNCHANGED matchVars

\* mutant: the credential is acquired again for every rule
MatchRule_AuthPerRule ==
    /\ pc = "triggerActions:map"
    /\ ~rulesUndefined
    /\ ri <= Len(rules)
    /\ ai = 0
    /\ authCalls' = authCalls + 1
    /\ authToken' = authCalls + 1
    /\ IF isValidData(rules[ri].filter, data) /\ Len(rules[ri].actions) > 0
       THEN /\ ri' = ri
            /\ ai' = 1
       ELSE /\ ri' = ri + 1
            /\ ai' = 0
    /\ log' = IF Len(parseSearchFilter(rules[ri].filter)) = 0
              THEN Append(log, "no search filters found")
              ELSE log
    /\ UNCHANGED <<data, rules, rulesUndefined, pc, rulesAuth, promises,
                   firstRejection, result>>
    /\ UNCHANGED matchVars

\* mutant: a rule that does not match ends the outer map
MatchRule_Break ==
    /\ pc = "triggerActions:map"
    /\ ~rulesUndefined
    /\ ri <= Len(rules)
    /\ ai = 0
    /\ IF isValidData(rules[ri].filter, data)
       THEN IF Len(rules[ri].actions) > 0
            THEN /\ ri' = ri
                 /\ ai' = 1
            ELSE /\ ri' = ri + 1
                 /\ ai' = 0
       ELSE /\ ri' = Len(rules) + 1
            /\ ai' = 0
    /\ log' = IF Len(parseSearchFilter(rules[ri].filter)) = 0
              THEN Append(log, "no search filters found")
              ELSE log
    /\ UNCHANGED <<data, rules, rulesUndefined, pc, authCalls, rulesAuth, authToken,
                   promises, firstRejection, result>>
    /\ UNCHANGED matchVars

\* mutant: a rule with enabled = false is passed over
MatchRule_SkipDisabled ==
    /\ pc = "triggerActions:map"
    /\ ~rulesUndefined
    /\ ri <= Len(rules)
    /\ ai = 0
    /\ IF /\ rules[ri].enabled
          /\ isValidData(rules[ri].filter, data)
          /\ Len(rules[ri].actions) > 0
       THEN /\ ri' = ri
            /\ ai' = 1
       ELSE /\ ri' = ri + 1
            /\ ai' = 0
    /\ log' = IF Len(parseSearchFilter(rules[ri].filter)) = 0
              THEN Append(log, "no search filters found")
              ELSE log
    /\ UNCHANGED <<data, rules, rulesUndefined, pc, authCalls, rulesAuth, authToken,
                   promises, firstRejection, result>>
    /\ UNCHANGED matchVars

\* triggerActions, lines 136-141: the outer map reaches rule ri
MatchRule ==
    /\ pc = "triggerActions:map"
    /\ ~rulesUndefined
    /\ ri <= Len(rules)
    /\ ai = 0
    /\ IF isValidData(rules[ri].filter, data) /\ Len(rules[ri].actions) > 0
       THEN /\ ri' = ri
            /\ ai' = 1
       ELSE /\ ri' = ri + 1
            /\ ai' = 0
    /\ log' = IF Len(parseSearchFilter(rules[ri].filter)) = 0
              THEN Append(log, "no search filters found")
              ELSE log
    /\ UNCHANGED <<data, rules, rulesUndefined, pc, authCalls, rulesAuth, authToken,
                   promises, firstRejection, result>>
    /\ UNCHANGED matchVars

\* mutant: each call is awaited in turn, so a failed call ends the dispatch
LaunchAction_FailFast ==
    /\ pc = "triggerActions:map"
    /\ ~rulesUndefined
    /\ ri <= Len(rules)
    /\ ai >= 1
    /\ IF RejectedIn(promises) # {}
       THEN /\ pc' = "returned"
            /\ result' = Rejected("triggerActions", "action", Min(RejectedIn(promises)))
            /\ UNCHANGED <<ri, ai, promises, log>>
       ELSE /\ LET action == rules[ri].actions[ai]
                   call   == actionCall(action, data, authToken)
               IN /\ promises' = IF call = <<>> THEN promises
                                 ELSE Append(promises, Promise(ri, ai, call[1]))
                  /\ log' = log \o actionLog(action, data)
            /\ IF ai < Len(rules[ri].actions)
               THEN /\ ri' = ri
                    /\ ai' = ai + 1
               ELSE /\ ri' = ri + 1
                    /\ ai' = 0
            /\ UNCHANGED <<pc, result>>
    /\ UNCHANGED <<data, rules, rulesUndefined, authCalls, rulesAuth, authToken,
                   firstRejection>>
    /\ UNCHANGED matchVars

\* mutant: a skipped action ends the action list of its rule
LaunchAction_SkipEndsRule ==
    /\ pc = "triggerActions:map"
    /\ ~rulesUndefined
    /\ ri <= Len(rules)
    /\ ai >= 1
    /\ LET action == rules[ri].actions[ai]
           call   == actionCall(action, data, authToken)
       IN /\ promises' = IF call = <<>> THEN promises
                         ELSE Append(promises, Promise(ri, ai, call[1]))
          /\ log' = log \o actionLog(action, data)
          /\ IF ai < Len(rules[ri].actions) /\ call # <<>>
             THEN /\ ri' = ri
                  /\ ai' = ai + 1
             ELSE /\ ri' = ri + 1
                  /\ ai' = 0
    /\ UNCHANGED <<data, rules, rulesUndefined, pc, authCalls, rulesAuth, authToken,
                   firstRejection, result>>
    /\ UNCHANGED matchVars

\* mutant: the labels of an AddLabel action are consumed by its call
LaunchAction_ConsumesParams ==
    /\ pc = "triggerActions:map"
    /\ ~rulesUndefined
    /\ ri <= Len(rules)
    /\ ai >= 1
    /\ LET action == rules[ri].actions[ai]
           call   == actionCall(action, data, authToken)
       IN /\ promises' = IF call = <<>> THEN promises
                         ELSE Append(promises, Promise(ri, ai, call[1]))
          /\ log' = log \o actionLog(action, data)
          /\ rules' = IF call # <<>> /\ action.type = AddLabel
                      THEN [rules EXCEPT ![ri].actions[ai].params = <<>>]
                      ELSE rules
    /\ IF ai < Len(rules[ri].actions)
       THEN /\ ri' = ri
            /\ ai' = ai + 1
       ELSE /\ ri' = ri + 1
            /\ ai' = 0
    /\ UNCHANGED <<data, rulesUndefined, pc, authCalls, rulesAuth, authToken,
                   firstRejection, result>>
    /\ UNCHANGED matchVars

\* triggerActions, lines 141-171: the inner map reaches action ai of rule ri
LaunchAction ==
    /\ pc = "triggerActions:map"
    /\ ~rulesUndefined
    /\ ri <= Len(rules)
    /\ ai >= 1
    /\ LET action == rules[ri].actions[ai]
           call   == actionCall(action, data, authToken)
       IN /\ promises' = IF call = <<>> THEN promises
                         ELSE Append(promises, Promise(ri, ai, call[1]))
          /\ log' = log \o actionLog(action, data)
    /\ IF ai < Len(rules[ri].actions)
       THEN /\ ri' = ri
            /\ ai' = ai + 1
       ELSE /\ ri' = ri + 1
            /\ ai' = 0
    /\ UNCHANGED <<data, rules, rulesUndefined, pc, authCalls, rulesAuth, authToken,
                   firstRejection, result>>
    /\ UNCHANGED matchVars

\* triggerActions, line 174: Promise.all subscribes to the batch, in order
PromiseAll ==
    /\ pc = "triggerActions:map"
    /\ ~rulesUndefined
    /\ ri > Len(rules)
    /\ pc' = "triggerActions:all"
    /\ firstRejection' = IF RejectedIn(promises) = {} THEN 0
                         ELSE Min(RejectedIn(promises))
    /\ UNCHANGED <<data, rules, rulesUndefined, authCalls, rulesAuth, authToken, ri,
                   ai, promises, log, result>>
    /\ UNCHANGED matchVars

\* a launched capability call succeeds or fails
Settle(i) ==
    /\ promises[i].state = "pending"
    /\ \E outcome \in {"fulfilled", "rejected"} :
          /\ promises' = [promises EXCEPT ![i].state = outcome]
          /\ firstRejection' =
                IF /\ pc = "triggerActions:all"
                   /\ outcome = "rejected"
                   /\ firstRejection = 0
                THEN i ELSE firstRejection
    /\ UNCHANGED <<data, rules, rulesUndefined, pc, authCalls, rulesAuth, authToken,
                   ri, ai, log, result>>
    /\ UNCHANGED matchVars

\* mutant: the values come last launched first
allValues_Reversed(ps) ==
    [i \in 1..Len(ps) |-> <<ps[Len(ps) + 1 - i].rule, ps[Len(ps) + 1 - i].action>>]

\* the values Promise.all resolves with: one per promise, in the batch's order
allValues(ps) == [i \in 1..Len(ps) |-> <<ps[i].rule, ps[i].action>>]

\* Promise.all settles once every promise fulfilled, or at the first rejection
allSettles(ps, first) ==
    \/ first # 0
    \/ \A i \in 1..Len(ps) : ps[i].state = "fulfilled"

\* mutant: a failed call is invoked once more before the dispatch gives up
Return_Retry ==
    /\ pc = "triggerActions:all"
    /\ allSettles(promises, firstRejection)
    /\ IF /\ firstRejection # 0
          /\ \A i \in 1..Len(promises) :
                i # firstRejection =>
                   <<promises[i].rule, promises[i].action>>
                      # <<promises[firstRejection].rule, promises[firstRejection].action>>
       THEN /\ promises' = Append(promises,
                                 [promises[firstRejection] EXCEPT !.state = "pending"])
            /\ firstRejection' = 0
            /\ UNCHANGED <<pc, result>>
       ELSE /\ pc' = "returned"
            /\ result' = IF firstRejection # 0
                         THEN Rejected("triggerActions", "action", firstRejection)
                         ELSE Fulfilled("triggerActions", allValues(promises))
            /\ UNCHANGED <<promises, firstRejection>>
    /\ UNCHANGED <<data, rules, rulesUndefined, authCalls, rulesAuth, authToken, ri,
                   ai, log>>
    /\ UNCHANGED matchVars

\* mutant: the join waits until every call has succeeded
Return_WhenAllFulfilled ==
    /\ pc = "triggerActions:all"
    /\ \A i \in 1..Len(promises) : promises[i].state = "fulfilled"
    /\ pc' = "returned"
    /\ result' = Fulfilled("triggerActions", allValues(promises))
    /\ UNCHANGED <<data, rules, rulesUndefined, authCalls, rulesAuth, authToken, ri,
                   ai, promises, log, firstRejection>>
    /\ UNCHANGED matchVars

\* triggerActions, line 174: the promise returned to the caller settles
Return ==
    /\ pc = "triggerActions:all"
    /\ allSettles(promises, firstRejection)
    /\ pc' = "returned"
    /\ result' = IF firstRejection # 0
                 THEN Rejected("triggerActions", "action", firstRejection)
                 ELSE Fulfilled("triggerActions", allValues(promises))
    /\ UNCHANGED <<data, rules, rulesUndefined, authCalls, rulesAuth, authToken, ri,
                   ai, promises, log, firstRejection>>
    /\ UNCHANGED matchVars

Next ==
    \/ GetEnabledRulesAuth
    \/ GetEnabledRulesPost
    \/ TriggerActionsCall
    \/ TriggerActionsAuth
    \/ MapUndefined
    \/ MatchRule
    \/ LaunchAction
    \/ PromiseAll
    \/ \E i \in 1..Len(promises) : Settle(i)
    \/ Return

Spec == Init /\ [][Next]_vars

\* the steps of triggerActions itself: its code runs to the next await, and
\* the await of getAuthToken completes
TriggerActionsStep ==
    \/ TriggerActionsAuth
    \/ MapUndefined
    \/ MatchRule
    \/ LaunchAction
    \/ PromiseAll
    \/ Return

\* some launched capability call settles
SettleStep == \E i \in 1..Len(promises) : Settle(i)

\* the events of the progress analysis: one read page with an id, one unread
\* page with an id, one event without an id
LiveEvents ==
    { Event(S_abc, S_read),
      Event(S_abc, S_unread),
      Event(undefined, S_unread) }

LiveInit == Init /\ data \in LiveEvents

\* the processing of one event when whatever can run does run in the end:
\* the code of triggerActions up to its next await, or the settling of a
\* launched call
LiveSpec ==
    /\ LiveInit
    /\ [][Next]_vars
    /\ WF_vars(TriggerActionsStep \/ SettleStep)

----------------------------------------------------------------------------
(* The matcher on its own: isValidData applied to a filter and an event     *)

KeywordPrefixes ==
    { <<"i","s",":">>,
      <<"t","y","p","e",":">>,
      <<"s","u","b","s","c","r","i","p","t","i","o","n",":">>,
      <<"c","o","n","t","e","n","t",":">>,
      <<"f","o","o",":">> }

TermValues ==
    { <<>>, <<"a">>, <<",", " ", Quote, ":", "a">> }

\* keyword:value terms, the wildcard and a plain word
TermPool ==
    {k \o v : k \in KeywordPrefixes, v \in TermValues} \cup {S_star, <<"a">>}

\* the terms joined by single spaces
RECURSIVE Join(_)
Join(ts) ==
    IF ts = <<>> THEN <<>>
    ELSE IF Len(ts) = 1 THEN ts[1]
    ELSE ts[1] \o <<" ">> \o Join(Tail(ts))

FilterInputs == {Join(ts) : ts \in SeqsUpTo(TermPool, MaxTerms)}

MatchEvent(readState, subscription, content) ==
    [id |-> S_abc, readState |-> readState,
     subscription |-> subscription, content |-> content]

MatchEvents ==
    { MatchEvent(<<"a">>, <<"a">>, <<"a","b">>),
      MatchEvent(<<"b">>, <<"a">>, <<"a","b">>),
      MatchEvent(<<"a">>, undefined, <<"a","b">>),
      MatchEvent(<<"a">>, <<"a">>, undefined),
      MatchEvent(undefined, <<"a">>, undefined),
      MatchEvent(undefined, undefined, undefined) }

MatchInit ==
    /\ data \in MatchEvents
    /\ filter \in FilterInputs
    /\ matched = FALSE
    /\ evaluated = -1
    /\ rules = <<>>
    /\ rulesUndefined = FALSE
    /\ pc = "idle"
    /\ authCalls = 0
    /\ rulesAuth = 0
    /\ authToken = 0
    /\ ri = 1
    /\ ai = 0
    /\ promises = <<>>
    /\ log = <<>>
    /\ firstRejection = 0
    /\ result = NoResult

\* isValidData(filter, data) is called
Evaluate ==
    /\ evaluated = -1
    /\ matched' = isValidData(filter, data)
    /\ evaluated' = predicatesEvaluated(filter, data)
    /\ UNCHANGED <<data, filter>>
    /\ UNCHANGED dispatchVars

MatchNext == Evaluate

MatchSpec == MatchInit /\ [][MatchNext]_vars

----------------------------------------------------------------------------
(* Properties                                                               *)

\* triggerActions has finished its two maps: the batch is what it is
Dispatched ==
    \/ pc = "triggerActions:all"
    \/ /\ pc = "returned"
       /\ result.from = "triggerActions"
       /\ result.kind = "fulfilled" \/ result.reason = "action"

\* the caller of triggerActions has its answer
TriggerReturned == pc = "returned" /\ result.from = "triggerActions"

\* the <<rule, action>> positions a capability was invoked for
Attempted == {<<promises[i].rule, promises[i].action>> : i \in 1..Len(promises)}

\* the <<rule, action>> positions of the rule list
Positions ==
    UNION {{<<r, a>> : a \in 1..Len(rules[r].actions)} : r \in 1..Len(rules)}

ActionAt(pos) == rules[pos[1]].actions[pos[2]]

\* the precondition of the action's type holds for the event
PreconditionHolds(action, d) ==
    \/ action.type = AddLabel /\ HasId(d) /\ action.params # <<>>
    \/ action.type \in {Archive, MarkAsRead} /\ HasId(d)
    \/ action.type = SendNotification

\* the positions of eligible actions of matching rules
EligiblePositions ==
    UNION {{<<r, a>> : a \in {a \in 1..Len(rules[r].actions) :
                                 PreconditionHolds(rules[r].actions[a], data)}} :
           r \in {r \in 1..Len(rules) : isValidData(rules[r].filter, data)}}

\* C1: when a capability call of the batch has failed, the caller of
\* triggerActions still receives one outcome per attempted action instead of
\* that failure as the result of the whole dispatch.
C1_PerActionOutcomes ==
    (TriggerReturned /\ promises # <<>> /\ RejectedIn(promises) # {})
        => /\ result.kind = "fulfilled"
           /\ Len(result.value) = Len(promises)

\* C2: triggerActions has returned to its caller only when every launched
\* capability call has settled.
C2_ReturnsAfterAllSettled ==
    TriggerReturned => \A i \in 1..Len(promises) : promises[i].state # "pending"

\* C3: whatever has failed, once triggerActions waits on the batch (and from
\* then on) every eligible action of every matching rule has been invoked,
\* exactly once: no invocation waits for, or depends on, another call.
C3_AllEligibleLaunched ==
    Dispatched => \A eligible \in {EligiblePositions} :
                     /\ eligible \subseteq Attempted
                     /\ Len(promises) = Cardinality(eligible)

\* C3 witness: a call of one rule has failed and a call of another rule was made
C3_Witness ==
    /\ Dispatched
    /\ \E i, j \in 1..Len(promises) :
          /\ promises[i].state = "rejected"
          /\ promises[i].rule # promises[j].rule
    /\ \E i \in 1..Len(promises) :
          /\ promises[i].state = "rejected"
          /\ \E j \in (i + 1)..Len(promises) : promises[j].rule = promises[i].rule

\* C4 as stated: processing one event acquires the credential at most once.
C4_AtMostOncePerEvent == authCalls <= 1

\* C4 amended: triggerActions acquires the credential once, whatever the
\* number of rules and actions, and getEnabledRules acquires one of its own:
\* one event costs one acquisition per call of the two, two at most.
C4_OncePerCall ==
    /\ authCalls <= 2
    /\ authToken # 0 => authCalls = (IF rulesAuth # 0 THEN 2 ELSE 1)
    /\ \A i \in 1..Len(promises) : promises[i].call.auth = authToken

\* C4 witness: two rules and three calls, after getEnabledRules and triggerActions
C4_Witness ==
    /\ Dispatched
    /\ rulesAuth # 0
    /\ authCalls = 2
    /\ Len(rules) = 2
    /\ Len(promises) >= 3

\* C5: no capability is invoked, no rule matched and nothing logged without
\* the credential of triggerActions; when its getAuthToken fails the caller
\* gets that failure.
C5_NoCredentialNoDispatch ==
    /\ authToken = 0 => /\ promises = <<>>
                        /\ log = <<>>
                        /\ ri = 1 /\ ai = 0
                        /\ pc \notin {"triggerActions:map", "triggerActions:all"}
    /\ (TriggerReturned /\ authToken = 0)
          => result.kind = "rejected" /\ result.reason = "getAuthToken"

\* C5 witness: getAuthToken failed in triggerActions for a rule list whose
\* first rule matches and has an eligible action
C5_Witness ==
    /\ TriggerReturned
    /\ result.reason = "getAuthToken"
    /\ <<1, 1>> \in EligiblePositions

\* C6: addLabels is invoked only for an event with an item identifier and an
\* action with non-empty params; a rule whose only action is an AddLabel
\* with empty params has no call made for it.
C6_AddLabelPrecondition ==
    \A i \in 1..Len(promises) :
        LET action == rules[promises[i].rule].actions[promises[i].action]
        IN /\ promises[i].call.fn = "addLabels"
                => /\ data.id # undefined
                   /\ action.params # <<>>
                   /\ action.type = AddLabel
           /\ rules[promises[i].rule].actions # <<Action(AddLabel, <<>>)>>

\* C6 witness: a matching rule with the single action AddLabel [], an event
\* with an identifier, and the dispatch made no call for it
C6_Witness ==
    /\ Dispatched
    /\ HasId(data)
    /\ \E r \in 1..Len(rules) :
          /\ rules[r].actions = <<Action(AddLabel, <<>>)>>
          /\ isValidData(rules[r].filter, data)
    /\ Len(rules) = 1
    /\ promises = <<>>

\* C7: archivePage and markPageAsRead are invoked only for an event with an
\* item identifier, at every position of the action list.
C7_ItemActionsNeedId ==
    \A i \in 1..Len(promises) :
        promises[i].call.fn \in {"archivePage", "markPageAsRead"}
            => data.id # undefined /\ promises[i].call.id = data.id

\* C7 witness: no identifier, a matching rule with Archive or MarkAsRead as
\* its second action, and no call for it
C7_Witness ==
    /\ Dispatched
    /\ data.id = undefined
    /\ \E pos \in Positions :
          /\ pos[2] = 2
          /\ ActionAt(pos).type \in {Archive, MarkAsRead}
          /\ isValidData(rules[pos[1]].filter, data)
          /\ pos \notin Attempted

\* C8: once the batch is built, every SendNotification action of every
\* matching rule has its sendNotification call, with the fixed message.
C8_NotificationAlwaysSent ==
    Dispatched =>
        \A pos \in Positions :
            (ActionAt(pos).type = SendNotification
                 /\ isValidData(rules[pos[1]].filter, data))
            => \E i \in 1..Len(promises) :
                  /\ <<promises[i].rule, promises[i].action>> = pos
                  /\ promises[i].call.fn = "sendNotification"
                  /\ promises[i].call.message = "New page added to your feed"

\* C8 witness: no identifier, params given, and the notification was sent
C8_Witness ==
    /\ Dispatched
    /\ ~HasId(data)
    /\ \E i \in 1..Len(promises) :
          /\ promises[i].call.fn = "sendNotification"
          /\ rules[promises[i].rule].actions[promises[i].action].params # <<>>

\* the positions eligible in rule r, from r's filter and actions alone
EligibleIn(rule, d) ==
    IF isValidData(rule.filter, d)
    THEN {a \in 1..Len(rule.actions) : PreconditionHolds(rule.actions[a], d)}
    ELSE {}

\* C9: a call is made for rule R only if R's filter matches the event, and
\* the actions attempted for R are decided by R and the event alone, whatever
\* the other rules of the list are.
C9_RulesIndependent ==
    /\ \A r \in {promises[i].rule : i \in 1..Len(promises)} :
          isValidData(rules[r].filter, data)
    /\ Dispatched =>
          \A r \in 1..Len(rules) :
              {pos[2] : pos \in {q \in Attempted : q[1] = r}}
                  = EligibleIn(rules[r], data)

\* C9 witness: the first rule does not match, the second does and had a call
C9_Witness ==
    /\ Dispatched
    /\ Len(rules) = 2
    /\ ~isValidData(rules[1].filter, data)
    /\ \A i \in 1..Len(promises) : promises[i].rule = 2
    /\ promises # <<>>

\* C10: for the empty filter and for "*", isValidData returns true for
\* every event, and no predicate is evaluated.
C10_WildcardMatchesAll ==
    (evaluated # -1 /\ filter \in {<<>>, <<"*">>})
        => matched = TRUE /\ evaluated = 0

\* C10 witness: "*" was evaluated on an event without attributes
C10_Witness ==
    /\ evaluated # -1
    /\ filter = <<"*">>
    /\ data.readState = undefined
    /\ data.subscription = undefined

\* C11: when the filter yields predicates, isValidData returns true exactly
\* when every one of them holds of the event; one false predicate, at any
\* place, gives false.
C11_MatchIffEveryPredicate ==
    LET searchFilters == parseSearchFilter(filter)
        holds == {i \in 1..Len(searchFilters) : isValid(searchFilters[i], data)}
    IN (evaluated # -1 /\ Len(searchFilters) > 0)
          => /\ matched <=> (holds = 1..Len(searchFilters))
             /\ holds # 1..Len(searchFilters) => ~matched

\* C11 witness: two predicates of different keywords, the first true and the
\* second false, and no match
C11_Witness ==
    LET searchFilters == parseSearchFilter(filter)
    IN /\ evaluated # -1
       /\ Len(searchFilters) = 2
       /\ searchFilters[1].kind # searchFilters[2].kind
       /\ isValid(searchFilters[1], data)
       /\ ~isValid(searchFilters[2], data)
       /\ ~matched

\* the filters made of keyword:value terms with an unregistered keyword only
UnrecognizedFilters ==
    {Join(ts) : ts \in SeqsUpTo({<<"f","o","o",":">> \o v : v \in TermValues},
                                MaxTerms) \ {<<>>}}

\* C12: a filter with unregistered keywords only yields no predicate and
\* matches every event.
C12_UnrecognizedKeywordsMatchAll ==
    (evaluated # -1 /\ filter \in UnrecognizedFilters)
        => /\ parseSearchFilter(filter) = <<>>
           /\ matched
           /\ evaluated = 0

\* C12 witness: foo:a foo:a was evaluated on an event without attributes
C12_Witness ==
    /\ evaluated # -1
    /\ filter = <<"f","o","o",":","a"," ","f","o","o",":","a">>
    /\ data.readState = undefined
    /\ data.content = undefined
    /\ matched

\* C13: when the rule source fails (the request fails, or the store answers
\* with a rules error) getEnabledRules has reported a failure to its caller,
\* and no rule was evaluated and no action attempted for the event.
C13_RuleSourceFailureReported ==
    (rulesUndefined \/ result.reason = "axios.post")
        => /\ pc = "returned"
           /\ result.kind = "rejected"
           /\ result.from = "getEnabledRules"
           /\ promises = <<>>
           /\ ri = 1 /\ ai = 0

\* the positions of actions of known type in matching rules whose
\* precondition fails for the event
SkippedPositions ==
    UNION {{<<r, a>> : a \in {a \in 1..Len(rules[r].actions) :
                /\ rules[r].actions[a].type \in {AddLabel, Archive, MarkAsRead}
                /\ ~PreconditionHolds(rules[r].actions[a], data)}} :
           r \in {r \in 1..Len(rules) : isValidData(rules[r].filter, data)}}

\* C14: an action whose precondition fails has no capability call and is
\* logged; every eligible action, of its rule and of the others, is still
\* attempted, and when the attempted calls all succeed the dispatch succeeds
\* with no entry for the skipped one.
C14_SkipIsLocal ==
    Dispatched =>
        \A skipped \in {SkippedPositions} :
            /\ skipped # {} => /\ EligiblePositions \subseteq Attempted
                               /\ Len(log) >= Cardinality(skipped)
            /\ \A pos \in skipped :
                  /\ pos \notin Attempted
                  /\ (TriggerReturned /\ RejectedIn(promises) = {})
                        => /\ result.kind = "fulfilled"
                           /\ \A k \in 1..Len(result.value) :
                                 result.value[k] # pos

\* C14 witness: the first action of a rule was skipped, the second one of the
\* same rule and an action of the other rule were attempted, and the
\* dispatch succeeded
C14_Witness ==
    /\ TriggerReturned
    /\ result.kind = "fulfilled"
    /\ \E r \in 1..Len(rules) :
          /\ <<r, 1>> \in SkippedPositions
          /\ <<r, 2>> \in Attempted
          /\ \E q \in Attempted : q[1] # r

HasPrefix(s, pre) == Len(s) >= Len(pre) /\ SubSeq(s, 1, Len(pre)) = pre

\* the filter with `is:` and `type:` exchanged at the start of every term
RECURSIVE SwapIsType(_, _)
SwapIsType(s, atStart) ==
    IF s = <<>> THEN <<>>
    ELSE IF atStart /\ HasPrefix(s, <<"i","s",":">>)
         THEN <<"t","y","p","e",":">> \o SwapIsType(SubSeq(s, 4, Len(s)), FALSE)
    ELSE IF atStart /\ HasPrefix(s, <<"t","y","p","e",":">>)
         THEN <<"i","s",":">> \o SwapIsType(SubSeq(s, 6, Len(s)), FALSE)
    ELSE <<s[1]>> \o SwapIsType(Tail(s), IsSpace(s[1]))

\* C15: the decision for a filter is the decision for the same filter with
\* `is` and `type` exchanged, and the two filters yield the same predicates.
C15_IsAndTypeAgree ==
    evaluated # -1
        => /\ matched = isValidData(SwapIsType(filter, TRUE), data)
           /\ parseSearchFilter(filter) = parseSearchFilter(SwapIsType(filter, TRUE))

\* C15 witness: type:a matched an event whose read state is a
C15_Witness ==
    /\ evaluated # -1
    /\ filter = <<"t","y","p","e",":","a">>
    /\ SwapIsType(filter, TRUE) = <<"i","s",":","a">>
    /\ data.readState = <<"a">>
    /\ matched

\* the calls made for one position of the rule list
CallsAt(pos) ==
    {i \in 1..Len(promises) : <<promises[i].rule, promises[i].action>> = pos}

\* C16: in one triggerActions call every eligible action of a matching rule
\* has exactly one capability call, whether that call is pending, succeeded
\* or failed, and no other position has any: calls and eligible actions are
\* equal in number.
C16_NoRetry ==
    /\ \A pos \in Positions : Cardinality(CallsAt(pos)) <= 1
    /\ Dispatched =>
          \A eligible \in {EligiblePositions} :
             /\ \A pos \in eligible : Cardinality(CallsAt(pos)) = 1
             /\ \A pos \in Positions \ eligible : CallsAt(pos) = {}
             /\ Len(promises) = Cardinality(eligible)

\* C16 witness: the dispatch returned a failure, one call failed and another
\* succeeded, and each was made once
C16_Witness ==
    /\ TriggerReturned
    /\ result.kind = "rejected"
    /\ result.reason = "action"
    /\ \E i, j \in 1..Len(promises) :
          /\ promises[i].state = "rejected"
          /\ promises[j].state = "fulfilled"
    /\ \A i \in 1..Len(promises) : promises[i].state # "pending"

\* C17: every capability call carries the credential triggerActions acquired
\* (not the one of getEnabledRules), the item-bound calls carry the event's
\* identifier, and addLabels carries exactly the params of its action.
C17_CallArguments ==
    \A i \in 1..Len(promises) :
        LET call   == promises[i].call
            action == rules[promises[i].rule].actions[promises[i].action]
        IN /\ call.auth = authToken
           /\ call.auth # 0
           /\ call.auth # rulesAuth
           /\ call.fn \in {"addLabels", "archivePage", "markPageAsRead"}
                 => call.id = data.id
           /\ call.fn = "addLabels" => call.labels = action.params

\* C17 witness: the rule is:unread with AddLabel ["todo"], fetched from the
\* rule source, on the unread event abc: addLabels("abc", ["todo"])
C17_Witness ==
    /\ Dispatched
    /\ rulesAuth # 0
    /\ rules = <<Rule(S_isUnread, <<Action(AddLabel, <<"todo">>)>>, TRUE)>>
    /\ data = Event(S_abc, S_unread)
    /\ Len(promises) = 1
    /\ promises[1].call.fn = "addLabels"
    /\ promises[1].call.id = <<"a","b","c">>
    /\ promises[1].call.labels = <<"todo">>

\* the words of s between single spaces
RECURSIVE SplitSpaces(_, _)
SplitSpaces(s, word) ==
    IF s = <<>> THEN <<word>>
    ELSE IF IsSpace(s[1]) THEN <<word>> \o SplitSpaces(Tail(s), <<>>)
    ELSE SplitSpaces(Tail(s), Append(word, s[1]))

\* a registered keyword followed by its colon and nothing else
EmptyValued(word) ==
    /\ word # <<>>
    /\ word[Len(word)] = ":"
    /\ SubSeq(word, 1, Len(word) - 1) \in keywords

RECURSIVE DropEmptyValued(_)
DropEmptyValued(words) ==
    IF words = <<>> THEN <<>>
    ELSE IF EmptyValued(Head(words)) THEN DropEmptyValued(Tail(words))
    ELSE <<Head(words)>> \o DropEmptyValued(Tail(words))

\* the filter without its terms of a registered keyword and an empty value
WithoutEmptyValued(f) == Join(DropEmptyValued(SplitSpaces(f, <<>>)))

\* C19: a registered keyword with an empty value adds no predicate: the
\* filter is decided as the filter without that term is, and when nothing
\* else is left it matches every event.
C19_EmptyValueDropped ==
    evaluated # -1
        => /\ parseSearchFilter(filter) = parseSearchFilter(WithoutEmptyValued(filter))
           /\ matched = isValidData(WithoutEmptyValued(filter), data)
           /\ WithoutEmptyValued(filter) = <<>> => matched /\ evaluated = 0

\* C19 witness: `is: is:a` matched an event whose read state is a, as
\* `is:a` does
C19_Witness ==
    /\ evaluated # -1
    /\ filter = <<"i","s",":"," ","i","s",":","a">>
    /\ WithoutEmptyValued(filter) = <<"i","s",":","a">>
    /\ data.readState = <<"a">>
    /\ matched

\* the last part of C19 happens: `is: type:` was evaluated and matched
C19_AllEmptyReached ==
    /\ evaluated # -1
    /\ filter = <<"i","s",":"," ","t","y","p","e",":">>
    /\ data.readState = undefined
    /\ matched

\* C20: a call of triggerActions returns to its caller in the end, and as
\* soon as no launched call is pending the join has its answer.
C20_EventuallyReturns ==
    /\ (pc = "triggerActions:auth") ~> (pc = "returned")
    /\ []((pc = "triggerActions:all"
              /\ \A i \in 1..Len(promises) : promises[i].state # "pending")
           => allSettles(promises, firstRejection))

\* C20 witness: triggerActions returned after its three calls settled, one
\* of them failed
C20_Witness ==
    /\ TriggerReturned
    /\ Len(promises) = 3
    /\ RejectedIn(promises) # {}
    /\ \A i \in 1..Len(promises) : promises[i].state # "pending"
    /\ result.failed # 0

\* triggerActions is running or has answered: the rule list is its argument
InTriggerActions ==
    pc \in {"triggerActions:auth", "triggerActions:map", "triggerActions:all"}

\* C21: no step changes an attribute of the event, and from the moment
\* triggerActions holds its rule list no step changes a rule of it (filter,
\* actions, params, enabled), whether the step matches a rule, launches or
\* skips an action, or is the success or failure of a launched call.
C21_InputsUnchanged ==
    [][/\ data' = data
       /\ InTriggerActions => /\ rules' = rules
                              /\ rulesUndefined' = rulesUndefined]_vars

\* C21 witness: the dispatch answered after a call succeeded, a call failed
\* and an action was skipped, and the rule list still has two rules
C21_Witness ==
    /\ TriggerReturned
    /\ Len(rules) = 2
    /\ \E i, j \in 1..Len(promises) :
          /\ promises[i].state = "rejected"
          /\ promises[j].state = "fulfilled"
          /\ promises[j].call.fn = "addLabels"
          /\ rules[promises[j].rule].actions[promises[j].action].params # <<>>
    /\ \E k \in 1..Len(log) : log[k] = "invalid data for add label action"

\* position p comes before position q: by rule, then by action in the rule
Before(p, q) == p[1] < q[1] \/ (p[1] = q[1] /\ p[2] < q[2])

\* C22: when no attempted call has failed, triggerActions answers with one
\* outcome per eligible action of a matching rule and nothing else, ordered
\* by the rule's position in the list and then by the action's position in
\* the rule, whatever the order in which the calls settled.
C22_OutcomesInListOrder ==
    (TriggerReturned /\ Dispatched /\ RejectedIn(promises) = {})
        => \A eligible \in {EligiblePositions} :
              /\ result.kind = "fulfilled"
              /\ {result.value[k] : k \in 1..Len(result.value)} = eligible
              /\ Len(result.value) = Cardinality(eligible)
              /\ \A i, j \in 1..Len(result.value) :
                    i < j => Before(result.value[i], result.value[j])

\* C22 witness: two rules, the second action of the first one and the first
\* action of the second one skipped, and the two outcomes in list order
C22_Witness ==
    /\ TriggerReturned
    /\ result.kind = "fulfilled"
    /\ result.value = <<(<<1, 1>>), (<<2, 2>>)>>
    /\ SkippedPositions = {<<1, 2>>, <<2, 1>>}

\* the rule with its flag set
Enabled(rule) == [rule EXCEPT !.enabled = TRUE]

\* C23: a rule with enabled = false in the list handed to triggerActions is
\* matched, and has the calls of its eligible actions made, exactly as the
\* same rule with enabled = true: the flag decides nothing in the dispatch.
C23_EnabledNotConsulted ==
    Dispatched =>
        \A r \in {q \in 1..Len(rules) : ~rules[q].enabled} :
            {promises[i].action : i \in {k \in 1..Len(promises) :
                                            promises[k].rule = r}}
                = EligibleIn(Enabled(rules[r]), data)

\* C23 witness: a disabled rule after an enabled one, and its Archive action
\* was called
C23_Witness ==
    /\ Dispatched
    /\ Len(rules) = 2
    /\ rules[1].enabled
    /\ ~rules[2].enabled
    /\ \E i \in 1..Len(promises) :
          /\ promises[i].rule = 2
          /\ promises[i].call.fn = "archivePage"

\* the positions of actions of matching rules whose type the switch has no
\* case for
UnknownPositions ==
    UNION {{<<r, a>> : a \in {a \in 1..Len(rules[r].actions) :
                rules[r].actions[a].type
                    \notin {AddLabel, Archive, MarkAsRead, SendNotification}}} :
           r \in {r \in 1..Len(rules) : isValidData(rules[r].filter, data)}}

\* C24: an action of unknown type in a matching rule has no capability
\* call; the eligible actions of its rule are called all the same, when no
\* call has failed the dispatch succeeds with an outcome for each call and
\* none for the unknown action, and a failure of the dispatch is the failure
\* of a call made for another action.
C24_UnknownTypeIgnored ==
    Dispatched =>
        \A unknown \in {UnknownPositions} :
            /\ unknown \cap Attempted = {}
            /\ unknown # {} =>
                  /\ EligiblePositions \subseteq Attempted
                  /\ (TriggerReturned /\ RejectedIn(promises) = {})
                        => /\ result.kind = "fulfilled"
                           /\ Len(result.value) = Len(promises)
                           /\ \A k \in 1..Len(result.value) :
                                 result.value[k] \notin unknown
                  /\ (TriggerReturned /\ result.kind = "rejected")
                        => /\ result.failed \in RejectedIn(promises)
                           /\ <<promises[result.failed].rule,
                                 promises[result.failed].action>> \notin unknown

\* C24 witness: the rule with an action of unknown type before an Archive
\* action matched an event with an identifier, archivePage was called for
\* it, and the dispatch succeeded with that one outcome
C24_Witness ==
    /\ TriggerReturned
    /\ result.kind = "fulfilled"
    /\ Len(rules) = 1
    /\ rules[1].actions[1].type = UnknownType
    /\ Len(promises) = 1
    /\ promises[1].call.fn = "archivePage"
    /\ result.value = <<(<<1, 2>>)>>

\* the positions of SendNotification actions of matching rules
NotifyPositions ==
    UNION {{<<r, a>> : a \in {a \in 1..Len(rules[r].actions) :
                rules[r].actions[a].type = SendNotification}} :
           r \in {r \in 1..Len(rules) : isValidData(rules[r].filter, data)}}

\* C25: for an event whose identifier is the empty string no addLabels,
\* archivePage or markPageAsRead call is made, and the calls of the dispatch
\* are the sendNotification calls of the matching rules, one per such action.
C25_EmptyIdIsNoId ==
    data.id = <<>> =>
        /\ \A i \in 1..Len(promises) : promises[i].call.fn = "sendNotification"
        /\ Dispatched => /\ Attempted = NotifyPositions
                         /\ Len(promises) = Cardinality(NotifyPositions)

\* C25 witness: the identifier is the empty string, the rules hold an
\* AddLabel action with labels and a MarkAsRead action, and the two
\* notifications were the only calls
C25_Witness ==
    /\ data.id = <<>>
    /\ Dispatched
    /\ Len(promises) = 2
    /\ \E pos \in Positions :
          ActionAt(pos).type = AddLabel /\ ActionAt(pos).params # <<>>
    /\ \E pos \in Positions : ActionAt(pos).type = MarkAsRead
    /\ Attempted = {<<1, 1>>, <<2, 2>>}

====
